---------------------------- MODULE Spec2Model ----------------------------
(***************************************************************************)
(* Model of the F1-AI racing game: the Authority (ExternalProgram), the    *)
(* Entry Holder (Player) and the Coordinator (Server).                     *)
(*                                                                         *)
(* Crypto capabilities are modelled by their contract:                     *)
(*   - a BFV ciphertext is a record [pt, rnd, key]: pt is the plaintext   *)
(*     as the centred residue modulo the plaintext modulus, rnd identifies *)
(*     the encryption randomness (each fresh encryption draws a new one),  *)
(*     key the key pair it was encrypted under;                            *)
(*   - an Ed25519 signature is the pair [key, msg] of the signing key and  *)
(*     the signed bytes; it verifies exactly for that key and those bytes. *)
(* A Python exception is the outcome "raise": the handler stops at the     *)
(* raising statement and keeps the assignments made before it.             *)
(***************************************************************************)
EXTENDS Integers, Sequences, FiniteSets, TLC

VARIABLES
    signing_key,              \* ExternalProgram.signing_key
    he_key,                   \* ExternalProgram.HE: the key pair it holds
    saved_state,              \* the file save_state wrote, None before
    speed_polynomial_coeffs,  \* ExternalProgram.speed_polynomial_coeffs
    car_database,             \* ExternalProgram.car_database
    user_counter,             \* ExternalProgram.user_counter
    he_rng,                   \* number of fresh encryption randomness draws
    xpf_balance,              \* Player.xpf_balance
    cars,                     \* Player.cars
    car_speeds,               \* Player.car_speeds
    current_race_entries,     \* Server.current_race_entries
    race_results,             \* Server.race_results
    race_counter,             \* Server.race_counter
    run_race_frame,           \* position and locals of a run_race in progress
    ret                       \* the last call: operation, outcome, returned value

authorityVars == <<signing_key, he_key, saved_state, speed_polynomial_coeffs,
                   car_database, user_counter, he_rng>>
playerVars == <<xpf_balance, cars, car_speeds>>
serverVars == <<current_race_entries, race_results, race_counter, run_race_frame>>
vars == <<signing_key, he_key, saved_state, speed_polynomial_coeffs,
          car_database, user_counter, he_rng,
          xpf_balance, cars, car_speeds,
          current_race_entries, race_results, race_counter, run_race_frame, ret>>

---------------------------------------------------------------------------
(* Program constants *)

NumAttrs == 10
NumCoeffs == 66
PlainModulus == 65537
ScoreModulus == 1001
StartBalance == 10
MaxDelta == 19
MinAttr == 1          \* secrets.randbelow(999) + 1 is at least 1
MaxAttr == 999        \* and at most 999
AuthorityKey == 1

(* Bounds of the model *)

MaxUsers == 2        \* register_user calls
MaxTrainings == 1    \* successful trainings
MaxIssued == 2       \* records issued to an Entry Holder's world
MaxCars == 1         \* records a Player stores
MaxGarage == 2       \* records a Player stores where its cache is examined
MaxBalance == 10     \* receive_winnings is not called beyond this balance
MaxEntries == 2      \* race entries accepted, pending or ranked
MaxHistory == 2      \* run_race calls that count a race, where the history is examined
MaxRaces == 1        \* races run

(* Python's None, and an optional value, as a sequence of length 0 or 1 *)
None == <<>>
Some(x) == <<x>>

---------------------------------------------------------------------------
(* Input samples *)

\* register_user draws each attribute from [1, 999]
AttrVectors ==
    { [i \in 1..NumAttrs |-> 5],
      [i \in 1..NumAttrs |-> IF i = 1 THEN 999 ELSE 1] }

\* train_car draws each modification from [-19, 19]
Modifications ==
    { [i \in 1..NumAttrs |-> 0],
      [i \in 1..NumAttrs |-> IF i % 2 = 1 THEN MaxDelta ELSE -MaxDelta] }

\* _generate_speed_polynomial draws each coefficient from [1, 999]
Polynomials == { [i \in 1..NumCoeffs |-> IF i = 1 THEN 999 ELSE i] }

PlainAttrs == [i \in 1..NumAttrs |-> 5]
Training == [i \in 1..NumAttrs |-> IF i % 2 = 1 THEN MaxDelta ELSE -MaxDelta]
CarIndices == {-1, 0, 1}
Winnings == {0, 1}
ForeignKey == AuthorityKey + 1
ProgramInterfaces == {"program", "foreign"}
ServerInterfaces == {"program", "failing"}
UserIds == {1, 2}
RaceIds == -1..(MaxRaces + 1)
AlteredSpeeds == {ScoreModulus - 1}

---------------------------------------------------------------------------
(* Homomorphic Engine (Pyfhel, BFV) *)

\* BatchEncoder decoding: the residue modulo t, centred
HalfModulus == (PlainModulus - 1) \div 2
Centre(x) == ((x + HalfModulus) % PlainModulus) - HalfModulus

Max(a, b) == IF a >= b THEN a ELSE b

encryptInt(v, r) == [pt |-> Centre(v), rnd |-> r, key |-> he_key]
decryptInt(c) == c.pt
\* what ciphertext addition and multiplication do to the plaintext
AddPt(a, b) == Centre(a + b)
MulPt(a, b) == Centre(a * b)
\* a variant of the addition that adds the second operand twice
HEAddTwice(a, b) ==
    [pt |-> AddPt(AddPt(a.pt, b.pt), b.pt), rnd |-> Max(a.rnd, b.rnd), key |-> a.key]

HEAdd(a, b) == [pt |-> AddPt(a.pt, b.pt), rnd |-> Max(a.rnd, b.rnd), key |-> a.key]

(* Signature Scheme (PyNaCl, Ed25519) *)
Sign(key, msg) == [key |-> key, msg |-> msg]
Verify(key, msg, sig) == sig = [key |-> key, msg |-> msg]

---------------------------------------------------------------------------
(* Authority: ExternalProgram *)

\* pickle.dumps of the list of ciphertext bytes is the list itself
encrypt_car(attributes, r) == [i \in 1..NumAttrs |-> encryptInt(attributes[i], r)]

encrypt_polynomial(coeffs) == [i \in 1..NumCoeffs |-> encryptInt(coeffs[i], 0)]

encrypted_polynomial == encrypt_polynomial(speed_polynomial_coeffs)

sign_car(encrypted_car) == Sign(signing_key, encrypted_car)

\* a variant of verify_signature that looks at the signing key only
verify_key_only(encrypted_car, signature) == signature.key = signing_key

ext_verify_signature(encrypted_car, signature) ==
    Verify(signing_key, encrypted_car, signature)

\* The blind evaluation of calculate_encrypted_speed.  The three loops walk the
\* coefficients in order: poly[1] is the constant term, then one term per
\* attribute, one per square, one per pair i < j in the order of the nested
\* loops.  CrossPairs lists the pairs in that order.
RECURSIVE CrossPairsFrom(_, _)
CrossPairsFrom(i, j) ==
    IF i > NumAttrs THEN <<>>
    ELSE IF j > NumAttrs THEN CrossPairsFrom(i + 1, i + 2)
    ELSE <<<<i, j>>>> \o CrossPairsFrom(i, j + 1)

CrossPairs == CrossPairsFrom(1, 2)

\* a variant of the term that walks the pairs of the cross terms backwards
TermPtCrossReversed(p, a, idx) ==
    IF idx <= 1 + NumAttrs
    THEN MulPt(p[idx], a[idx - 1])
    ELSE IF idx <= 1 + 2 * NumAttrs
    THEN MulPt(MulPt(p[idx], a[idx - 1 - NumAttrs]), a[idx - 1 - NumAttrs])
    ELSE MulPt(MulPt(p[idx], a[CrossPairs[NumCoeffs + 1 - idx][1]]),
               a[CrossPairs[NumCoeffs + 1 - idx][2]])

\* the plaintext of the term the loops add at coefficient idx (idx >= 2), from
\* the plaintexts p of the coefficients and a of the attributes: each ciphertext
\* product reduces modulo t
TermPt(p, a, idx) ==
    IF idx <= 1 + NumAttrs
    THEN MulPt(p[idx], a[idx - 1])
    ELSE IF idx <= 1 + 2 * NumAttrs
    THEN MulPt(MulPt(p[idx], a[idx - 1 - NumAttrs]), a[idx - 1 - NumAttrs])
    ELSE MulPt(MulPt(p[idx], a[CrossPairs[idx - 1 - 2 * NumAttrs][1]]),
               a[CrossPairs[idx - 1 - 2 * NumAttrs][2]])

RECURSIVE PlainSum(_, _)
PlainSum(terms, k) == IF k = 0 THEN 0 ELSE PlainSum(terms, k - 1) + terms[k]

\* the latest randomness among the ciphertexts of a record
LatestRnd(x) == CHOOSE m \in { x[i].rnd : i \in 1..NumAttrs } :
                    \A i \in 1..NumAttrs : x[i].rnd <= m

\* result = poly[0]; result += term, for every term in order.  The chain of
\* ciphertext additions decrypts to the sum of the terms reduced modulo t, and
\* carries the latest randomness of its operands.
EvaluatePolynomial(poly, x) ==
    LET p == <<poly[1].pt>> \o [i \in 1..(NumCoeffs - 1) |-> poly[i + 1].pt]
        a == <<x[1].pt>> \o [i \in 1..(NumAttrs - 1) |-> x[i + 1].pt]
        terms == [idx \in 1..NumCoeffs |-> IF idx = 1 THEN p[1] ELSE TermPt(p, a, idx)]
    IN  [pt |-> Centre(PlainSum(terms, NumCoeffs)), rnd |-> LatestRnd(x),
         key |-> x[1].key]

ext_calculate_encrypted_speed(encrypted_car) ==
    EvaluatePolynomial(encrypted_polynomial, encrypted_car)

\* a variant of decrypt_speed that returns the decrypted value as it is
decrypt_raw(encrypted_speed) == decryptInt(encrypted_speed)

decrypt_speed(encrypted_speed) == decryptInt(encrypted_speed) % ScoreModulus

decrypt_car(encrypted_car) == [i \in 1..NumAttrs |-> decryptInt(encrypted_car[i])]

\* trainings the Authority has performed: every mint and every training draws
\* fresh encryption randomness once
TrainingsDone == he_rng - user_counter

\* a variant of register_user that encrypts secrets.randbelow(999) without
\* the + 1
register_user_zero_based(attributes) ==
    LET user_id == user_counter + 1
        encrypted_car == encrypt_car([i \in 1..NumAttrs |-> attributes[i] - 1], he_rng + 1)
        signature == sign_car(encrypted_car)
    IN  [user_id |-> user_id, encrypted_car |-> encrypted_car, signature |-> signature,
         user_counter |-> user_id,
         he_rng |-> he_rng + 1,
         car_database |->
            [u \in DOMAIN car_database \cup {user_id} |->
                IF u = user_id
                THEN [cars |-> <<encrypted_car>>, signatures |-> <<signature>>]
                ELSE car_database[u]]]

\* register_user as a function of the drawn attributes: the returned triple and
\* the Authority's next state
ext_register_user(attributes) ==
    LET user_id == user_counter + 1
        encrypted_car == encrypt_car(attributes, he_rng + 1)
        signature == sign_car(encrypted_car)
    IN  [user_id |-> user_id, encrypted_car |-> encrypted_car, signature |-> signature,
         user_counter |-> user_id,
         he_rng |-> he_rng + 1,
         car_database |->
            [u \in DOMAIN car_database \cup {user_id} |->
                IF u = user_id
                THEN [cars |-> <<encrypted_car>>, signatures |-> <<signature>>]
                ELSE car_database[u]]]

\* a variant of train_car that signs the record it was handed, not the new one
train_signing_input(user_id, car_index, encrypted_car, signature, modifications) ==
    LET new_encrypted_car ==
            [i \in 1..NumAttrs |->
                HEAdd(encrypted_car[i], encryptInt(modifications[i], he_rng + 1))]
        new_signature == sign_car(encrypted_car)
    IN  [new_car |-> Some(new_encrypted_car), new_sig |-> Some(new_signature),
         success |-> TRUE,
         he_rng |-> he_rng + 1,
         car_database |->
            IF user_id \in DOMAIN car_database
            THEN [car_database EXCEPT
                    ![user_id].cars = Append(@, new_encrypted_car),
                    ![user_id].signatures = Append(@, new_signature)]
            ELSE car_database]

\* train_car after the signature check: the modifications are encrypted and
\* added, the new record is signed and stored
train_verified(user_id, car_index, encrypted_car, signature, modifications) ==
    LET new_encrypted_car ==
            [i \in 1..NumAttrs |->
                HEAdd(encrypted_car[i], encryptInt(modifications[i], he_rng + 1))]
        new_signature == sign_car(new_encrypted_car)
    IN  [new_car |-> Some(new_encrypted_car), new_sig |-> Some(new_signature),
         success |-> TRUE,
         he_rng |-> he_rng + 1,
         car_database |->
            IF user_id \in DOMAIN car_database
            THEN [car_database EXCEPT
                    ![user_id].cars = Append(@, new_encrypted_car),
                    ![user_id].signatures = Append(@, new_signature)]
            ELSE car_database]

\* a variant of train_car that skips the signature check
train_unverified(user_id, car_index, encrypted_car, signature, modifications) ==
    train_verified(user_id, car_index, encrypted_car, signature, modifications)

\* train_car as a function of its arguments and the drawn modifications: the
\* returned triple and the Authority's next state
ext_train_car(user_id, car_index, encrypted_car, signature, modifications) ==
    IF ~ext_verify_signature(encrypted_car, signature)
    THEN [new_car |-> None, new_sig |-> None, success |-> FALSE,
          he_rng |-> he_rng, car_database |-> car_database]
    ELSE train_verified(user_id, car_index, encrypted_car, signature, modifications)

\* a foreign ExternalProgram holds other keys: it rejects every record of this one
foreign_train_car(user_id, car_index, encrypted_car, signature, modifications) ==
    IF ~Verify(ForeignKey, encrypted_car, signature)
    THEN [new_car |-> None, new_sig |-> None, success |-> FALSE,
          he_rng |-> he_rng, car_database |-> car_database]
    ELSE [new_car |-> Some(encrypted_car), new_sig |-> Some(signature), success |-> TRUE,
          he_rng |-> he_rng, car_database |-> car_database]

(* Actions of the Authority.  ret.args of a call that takes a record tells
   whether the signature handed in is the Authority's signature of the
   attribute bytes handed in; for train_car it also holds the user id and,
   when the training succeeded, the record that was handed in. *)

RegisterUser(attributes) ==
    /\ user_counter < MaxUsers
    /\ \E r \in { ext_register_user(attributes) } :
           /\ user_counter' = r.user_counter
           /\ he_rng' = r.he_rng
           /\ car_database' = r.car_database
           /\ ret' = [op |-> "register_user", args |-> <<>>, outcome |-> "return",
                      val |-> Some(<<r.user_id, r.encrypted_car, r.signature>>)]
    /\ UNCHANGED <<signing_key, he_key, saved_state, speed_polynomial_coeffs,
                   playerVars, serverVars>>

ExtTrainCar(user_id, car_index, encrypted_car, signature, modifications) ==
    \E r \in { ext_train_car(user_id, car_index, encrypted_car, signature, modifications) } :
        /\ r.success => TrainingsDone < MaxTrainings
        /\ he_rng' = r.he_rng
        /\ car_database' = r.car_database
        /\ ret' = [op |-> "ext_train_car",
                   args |-> <<Verify(AuthorityKey, encrypted_car, signature), user_id,
                              IF r.success THEN Some(encrypted_car) ELSE None>>,
                   outcome |-> "return",
                   val |-> Some(<<r.new_car, r.new_sig, r.success>>)]
        /\ UNCHANGED <<signing_key, he_key, saved_state, speed_polynomial_coeffs,
                       user_counter,
                       playerVars, serverVars>>

---------------------------------------------------------------------------
(* Public material handed out at construction: get_public_keys *)

signing_public_key == AuthorityKey

(* Python list indexing: list[i] for any integer i *)
PyValid(i, n) == IF i >= 0 THEN i < n ELSE -i <= n
PyPos(i, n) == IF i >= 0 THEN i + 1 ELSE n + i + 1
---------------------------------------------------------------------------
(* Entry Holder: Player *)

player_user_id == 1

\* a variant of verify_signature that accepts every signature
verify_anything(encrypted_car, signature) == TRUE

player_verify_signature(encrypted_car, signature) ==
    Verify(signing_public_key, encrypted_car, signature)

\* a variant of the loops that walks the attributes from the last to the first
evaluate_backwards(encrypted_car) ==
    EvaluatePolynomial(encrypted_polynomial,
                       [i \in 1..NumAttrs |-> encrypted_car[NumAttrs + 1 - i]])

\* the evaluation loops of Player.calculate_car_speed, lines 77-100
player_evaluate(encrypted_car) ==
    EvaluatePolynomial(encrypted_polynomial, encrypted_car)

\* calculate_car_speed on cars cs and car_speeds sp: the outcome, the returned
\* value and car_speeds afterwards
calculate_car_speed(cs, sp, car_index) ==
    IF car_index >= Len(cs)
    THEN [outcome |-> "return", val |-> None, car_speeds |-> sp]
    ELSE IF ~PyValid(car_index, Len(cs))
    THEN [outcome |-> "raise", val |-> None, car_speeds |-> sp]
    ELSE
        LET encrypted_speed == player_evaluate(cs[PyPos(car_index, Len(cs))][1])
            ext == IF car_index >= Len(sp)
                   THEN sp \o [k \in 1..(car_index - Len(sp) + 1) |-> None]
                   ELSE sp
        IN  IF ~PyValid(car_index, Len(ext))
            THEN [outcome |-> "raise", val |-> None, car_speeds |-> ext]
            ELSE [outcome |-> "return", val |-> Some(encrypted_speed),
                  car_speeds |-> [ext EXCEPT ![PyPos(car_index, Len(ext))] =
                                                Some(encrypted_speed)]]

\* prepare_for_race: the outcome, the returned triple and car_speeds afterwards
prepare_for_race(cs, sp, car_index) ==
    IF car_index >= Len(cs)
    THEN [outcome |-> "return", val |-> Some(<<None, None, None>>), car_speeds |-> sp]
    ELSE IF ~PyValid(car_index, Len(cs))
    THEN [outcome |-> "raise", val |-> None, car_speeds |-> sp]
    ELSE
        LET car == cs[PyPos(car_index, Len(cs))]
        IN  IF car_index >= Len(sp)
            THEN LET c == calculate_car_speed(cs, sp, car_index)
                 IN  [outcome |-> c.outcome,
                      val |-> IF c.outcome = "return"
                              THEN Some(<<car[1], car[2], c.val>>) ELSE None,
                      car_speeds |-> c.car_speeds]
            ELSE IF ~PyValid(car_index, Len(sp))
            THEN [outcome |-> "raise", val |-> None, car_speeds |-> sp]
            ELSE IF sp[PyPos(car_index, Len(sp))] = None
            THEN LET c == calculate_car_speed(cs, sp, car_index)
                 IN  [outcome |-> c.outcome,
                      val |-> IF c.outcome = "return"
                              THEN Some(<<car[1], car[2], c.val>>) ELSE None,
                      car_speeds |-> c.car_speeds]
            ELSE [outcome |-> "return",
                  val |-> Some(<<car[1], car[2], sp[PyPos(car_index, Len(sp))]>>),
                  car_speeds |-> sp]

\* the Authority a Player is handed as program_interface
interface_train_car(program_interface, user_id, car_index, car, sig, mods) ==
    IF program_interface = "program"
    THEN ext_train_car(user_id, car_index, car, sig, mods)
    ELSE foreign_train_car(user_id, car_index, car, sig, mods)

\* train_car refusing the call: False is returned and nothing has changed
train_car_refused ==
    [outcome |-> "return", val |-> Some(FALSE),
     xpf_balance |-> xpf_balance, cars |-> cars, car_speeds |-> car_speeds,
     he_rng |-> he_rng, car_database |-> car_database]

\* train_car from the index check on
train_car_funded(car_index, program_interface, modifications) ==
    LET same == train_car_refused
    IN
    IF car_index >= Len(cars) THEN same
    ELSE IF ~PyValid(car_index, Len(cars))
    THEN [same EXCEPT !.outcome = "raise", !.val = None, !.xpf_balance = xpf_balance - 1]
    ELSE
        LET pos == PyPos(car_index, Len(cars))
            t == interface_train_car(program_interface, player_user_id, car_index,
                                     cars[pos][1], cars[pos][2], modifications)
        IN  IF t.success
            THEN LET new_cars == [cars EXCEPT ![pos] = <<t.new_car[1], t.new_sig[1]>>]
                     c == calculate_car_speed(new_cars, car_speeds, car_index)
                 IN  [outcome |-> c.outcome,
                      val |-> IF c.outcome = "return" THEN Some(TRUE) ELSE None,
                      xpf_balance |-> xpf_balance - 1,
                      cars |-> new_cars,
                      car_speeds |-> c.car_speeds,
                      he_rng |-> t.he_rng, car_database |-> t.car_database]
            ELSE [same EXCEPT !.xpf_balance = (xpf_balance - 1) + 1,
                              !.he_rng = t.he_rng, !.car_database = t.car_database]

\* a variant of train_car that goes on without the balance check
train_car_unchecked(car_index, program_interface, modifications) ==
    train_car_funded(car_index, program_interface, modifications)

\* Player.train_car: the outcome, the returned value and the state afterwards
player_train_car(car_index, program_interface, modifications) ==
    IF xpf_balance < 1 THEN train_car_refused
    ELSE train_car_funded(car_index, program_interface, modifications)

\* enter_race from the debit on: the fee is taken, the car is prepared, and the
\* fee is returned when prepare_for_race returns no car
enter_race_paid(car_index) ==
    LET p == prepare_for_race(cars, car_speeds, car_index)
    IN  IF p.outcome = "raise"
        THEN [outcome |-> "raise", val |-> None,
              xpf_balance |-> xpf_balance - 1, car_speeds |-> p.car_speeds]
        ELSE IF p.val[1][1] = None
        THEN [outcome |-> "return", val |-> Some(FALSE),
              xpf_balance |-> (xpf_balance - 1) + 1, car_speeds |-> p.car_speeds]
        ELSE [outcome |-> "return", val |-> Some(TRUE),
              xpf_balance |-> xpf_balance - 1, car_speeds |-> p.car_speeds]

\* a variant of enter_race that takes the fee without the balance check
enter_race_unchecked(car_index) == enter_race_paid(car_index)

\* Player.enter_race: the outcome, the returned value and the state afterwards
player_enter_race(car_index) ==
    IF xpf_balance < 1
    THEN [outcome |-> "return", val |-> Some(FALSE),
          xpf_balance |-> xpf_balance, car_speeds |-> car_speeds]
    ELSE enter_race_paid(car_index)

(* Actions of the Player *)

AddCar(encrypted_car, signature) ==
    /\ cars' = IF player_verify_signature(encrypted_car, signature)
               THEN Append(cars, <<encrypted_car, signature>>)
               ELSE cars
    /\ ret' = [op |-> "add_car",
               args |-> <<Verify(AuthorityKey, encrypted_car, signature)>>,
               outcome |-> "return", val |-> None]
    /\ UNCHANGED <<xpf_balance, car_speeds, authorityVars, serverVars>>

CalculateCarSpeed(car_index) ==
    \E c \in { calculate_car_speed(cars, car_speeds, car_index) } :
        /\ car_speeds' = c.car_speeds
        /\ ret' = [op |-> "calculate_car_speed", args |-> <<car_index>>,
                   outcome |-> c.outcome, val |-> c.val]
        /\ UNCHANGED <<xpf_balance, cars, authorityVars, serverVars>>

TrainCar(car_index, program_interface, modifications) ==
    \E r \in { player_train_car(car_index, program_interface, modifications) } :
        /\ r.he_rng # he_rng => TrainingsDone < MaxTrainings
        /\ xpf_balance' = r.xpf_balance
        /\ cars' = r.cars
        /\ car_speeds' = r.car_speeds
        /\ he_rng' = r.he_rng
        /\ car_database' = r.car_database
        /\ ret' = [op |-> "train_car", args |-> <<>>,
                   outcome |-> r.outcome, val |-> r.val]
        /\ UNCHANGED <<signing_key, he_key, saved_state, speed_polynomial_coeffs,
                       user_counter, serverVars>>

PrepareForRace(car_index) ==
    \E p \in { prepare_for_race(cars, car_speeds, car_index) } :
        /\ car_speeds' = p.car_speeds
        /\ ret' = [op |-> "prepare_for_race", args |-> <<>>,
                   outcome |-> p.outcome, val |-> p.val]
        /\ UNCHANGED <<xpf_balance, cars, authorityVars, serverVars>>

EnterRace(car_index) ==
    \E r \in { player_enter_race(car_index) } :
        /\ xpf_balance' = r.xpf_balance
        /\ car_speeds' = r.car_speeds
        /\ ret' = [op |-> "enter_race", args |-> <<>>,
                   outcome |-> r.outcome, val |-> r.val]
        /\ UNCHANGED <<cars, authorityVars, serverVars>>

ReceiveWinnings(amount) ==
    /\ xpf_balance + amount <= MaxBalance
    /\ xpf_balance' = xpf_balance + amount
    /\ ret' = [op |-> "receive_winnings", args |-> <<>>,
               outcome |-> "return", val |-> None]
    /\ UNCHANGED <<cars, car_speeds, authorityVars, serverVars>>
---------------------------------------------------------------------------
(* Coordinator: Server *)

server_verify_signature(encrypted_car, signature) ==
    Verify(signing_public_key, encrypted_car, signature)

RaceEntry(user_id, encrypted_car, signature) ==
    [user_id |-> user_id, encrypted_car |-> encrypted_car, signature |-> signature,
     encrypted_speed |-> None]

\* a variant of accept_race_entry that assigns the pending list instead of
\* appending to it
accept_replacing_pending(user_id, encrypted_car, signature) ==
    IF ~server_verify_signature(encrypted_car, signature)
    THEN [val |-> FALSE, current_race_entries |-> current_race_entries]
    ELSE [val |-> TRUE,
          current_race_entries |-> <<RaceEntry(user_id, encrypted_car, signature)>>]

\* a variant of accept_race_entry that skips the signature check
accept_unverified(user_id, encrypted_car, signature) ==
    [val |-> TRUE,
     current_race_entries |->
         Append(current_race_entries, RaceEntry(user_id, encrypted_car, signature))]

\* accept_race_entry: the returned value and the pending entries afterwards
server_accept_race_entry(user_id, encrypted_car, signature) ==
    IF ~server_verify_signature(encrypted_car, signature)
    THEN [val |-> FALSE, current_race_entries |-> current_race_entries]
    ELSE [val |-> TRUE,
          current_race_entries |->
              Append(current_race_entries, RaceEntry(user_id, encrypted_car, signature))]

server_calculate_encrypted_speed(encrypted_car) ==
    EvaluatePolynomial(encrypted_polynomial, encrypted_car)

\* list.sort(key=lambda x: x[1], reverse=True): stable, descending by speed.
\* InsertDesc puts x after every element whose speed is >= its own.
RECURSIVE InsertDesc(_, _)

\* a variant of the insertion that puts x before the elements of equal speed,
\* as an unstable sort may
InsertDescBeforeTies(sorted, x) ==
    IF sorted = <<>> THEN <<x>>
    ELSE IF Head(sorted)[2] > x[2]
    THEN <<Head(sorted)>> \o InsertDesc(Tail(sorted), x)
    ELSE <<x>> \o sorted

InsertDesc(sorted, x) ==
    IF sorted = <<>> THEN <<x>>
    ELSE IF Head(sorted)[2] >= x[2] THEN <<Head(sorted)>> \o InsertDesc(Tail(sorted), x)
    ELSE <<x>> \o sorted

RECURSIVE SortDesc(_)
SortDesc(results) ==
    IF results = <<>> THEN <<>>
    ELSE InsertDesc(SortDesc(SubSeq(results, 1, Len(results) - 1)), results[Len(results)])

\* a variant of the ranking that records the first row's signature in every row
rank_recording_first_signature(entries) ==
    LET evaluated == [i \in 1..Len(entries) |->
                        [entries[i] EXCEPT !.encrypted_speed =
                            Some(server_calculate_encrypted_speed(entries[i].encrypted_car))]]
        decrypted_speeds == [i \in 1..Len(evaluated) |->
                                decrypt_speed(evaluated[i].encrypted_speed[1])]
        results == SortDesc([i \in 1..Len(evaluated) |->
                                <<evaluated[i], decrypted_speeds[i]>>])
    IN  [rank \in 1..Len(results) |->
            [rank |-> rank,
             user_id |-> results[rank][1].user_id,
             speed |-> results[rank][2],
             encrypted_car |-> results[rank][1].encrypted_car,
             signature |-> results[1][1].signature,
             encrypted_speed |-> results[rank][1].encrypted_speed]]

\* the rankings run_race builds from the pending entries: every entry is
\* evaluated, its speed decrypted, the pairs sorted, the rows numbered
rank_entries(entries) ==
    LET evaluated == [i \in 1..Len(entries) |->
                        [entries[i] EXCEPT !.encrypted_speed =
                            Some(server_calculate_encrypted_speed(entries[i].encrypted_car))]]
        decrypted_speeds == [i \in 1..Len(evaluated) |->
                                decrypt_speed(evaluated[i].encrypted_speed[1])]
        results == SortDesc([i \in 1..Len(evaluated) |->
                                <<evaluated[i], decrypted_speeds[i]>>])
    IN  [rank \in 1..Len(results) |->
            [rank |-> rank,
             user_id |-> results[rank][1].user_id,
             speed |-> results[rank][2],
             encrypted_car |-> results[rank][1].encrypted_car,
             signature |-> results[rank][1].signature,
             encrypted_speed |-> results[rank][1].encrypted_speed]]

\* a variant of run_race that counts the race before looking at the entries
run_race_counting_first ==
    IF Len(current_race_entries) = 0
    THEN [val |-> None, current_race_entries |-> current_race_entries,
          race_results |-> race_results, race_counter |-> race_counter + 1]
    ELSE
        LET rankings == rank_entries(current_race_entries)
            race_result == [race_id |-> race_counter + 1,
                            participants |-> Len(rankings),
                            rankings |-> rankings]
        IN  [val |-> Some(race_result),
             current_race_entries |-> <<>>,
             race_results |-> Append(race_results, race_result),
             race_counter |-> race_counter + 1]

\* a variant of run_race that keeps the pending entries after the race
run_race_keeping_entries ==
    IF Len(current_race_entries) = 0
    THEN [val |-> None, current_race_entries |-> current_race_entries,
          race_results |-> race_results, race_counter |-> race_counter]
    ELSE
        LET rankings == rank_entries(current_race_entries)
            race_result == [race_id |-> race_counter + 1,
                            participants |-> Len(rankings),
                            rankings |-> rankings]
        IN  [val |-> Some(race_result),
             current_race_entries |-> current_race_entries,
             race_results |-> Append(race_results, race_result),
             race_counter |-> race_counter + 1]

\* a variant of run_race that keeps only the latest result in the history
run_race_replacing_history ==
    IF Len(current_race_entries) = 0
    THEN [val |-> None, current_race_entries |-> current_race_entries,
          race_results |-> race_results, race_counter |-> race_counter]
    ELSE
        LET rankings == rank_entries(current_race_entries)
            race_result == [race_id |-> race_counter + 1,
                            participants |-> Len(rankings),
                            rankings |-> rankings]
        IN  [val |-> Some(race_result),
             current_race_entries |-> <<>>,
             race_results |-> <<race_result>>,
             race_counter |-> race_counter + 1]

\* run_race: the returned value and the Server's state afterwards
server_run_race ==
    IF Len(current_race_entries) = 0
    THEN [val |-> None, current_race_entries |-> current_race_entries,
          race_results |-> race_results, race_counter |-> race_counter]
    ELSE
        LET rankings == rank_entries(current_race_entries)
            race_result == [race_id |-> race_counter + 1,
                            participants |-> Len(rankings),
                            rankings |-> rankings]
        IN  [val |-> Some(race_result),
             current_race_entries |-> <<>>,
             race_results |-> Append(race_results, race_result),
             race_counter |-> race_counter + 1]

\* a variant of the failing run_race that resets the pending entries on its
\* way out
run_race_failed_clearing_entries ==
    IF Len(current_race_entries) = 0
    THEN [outcome |-> "return", val |-> None,
          current_race_entries |-> current_race_entries,
          race_results |-> race_results, race_counter |-> race_counter]
    ELSE [outcome |-> "raise", val |-> None,
          current_race_entries |-> <<>>,
          race_results |-> race_results, race_counter |-> race_counter + 1]

\* run_race when program_interface.decrypt_speed raises at the first request
\* of line 126: the counter was incremented and every pending entry
\* evaluated, nothing else happened
run_race_decryption_failed ==
    IF Len(current_race_entries) = 0
    THEN [outcome |-> "return", val |-> None,
          current_race_entries |-> current_race_entries,
          race_results |-> race_results, race_counter |-> race_counter]
    ELSE [outcome |-> "raise", val |-> None,
          current_race_entries |->
              [i \in 1..Len(current_race_entries) |->
                  [current_race_entries[i] EXCEPT !.encrypted_speed =
                      Some(server_calculate_encrypted_speed(
                               current_race_entries[i].encrypted_car))]],
          race_results |-> race_results, race_counter |-> race_counter + 1]

\* run_race(program_interface): "program" is the Authority, "failing" an
\* interface whose decrypt_speed raises
run_race_with(program_interface) ==
    IF program_interface = "program"
    THEN [outcome |-> "return", val |-> server_run_race.val,
          current_race_entries |-> server_run_race.current_race_entries,
          race_results |-> server_run_race.race_results,
          race_counter |-> server_run_race.race_counter]
    ELSE run_race_decryption_failed

\* a variant of verify_race_results that refuses the latest race id
verify_refusing_latest(race_id) ==
    IF race_id >= Len(race_results)
    THEN [outcome |-> "return", val |-> Some(FALSE)]
    ELSE IF ~PyValid(race_id - 1, Len(race_results))
    THEN [outcome |-> "raise", val |-> None]
    ELSE [outcome |-> "return", val |-> Some(TRUE)]

\* verify_race_results: the outcome and the returned value
server_verify_race_results(race_id) ==
    IF race_id > Len(race_results)
    THEN [outcome |-> "return", val |-> Some(FALSE)]
    ELSE IF ~PyValid(race_id - 1, Len(race_results))
    THEN [outcome |-> "raise", val |-> None]
    ELSE [outcome |-> "return", val |-> Some(TRUE)]

\* a variant of publish_race_to_blockchain that names the last row as the winner
publish_last_as_winner(race_result) ==
    IF Len(race_result.rankings) = 0
    THEN [outcome |-> "raise", val |-> None]
    ELSE [outcome |-> "return",
          val |-> Some([race_id |-> race_result.race_id,
                        winner_id |-> race_result.rankings[Len(race_result.rankings)].user_id,
                        winner_speed |-> race_result.rankings[Len(race_result.rankings)].speed,
                        participants |-> race_result.participants,
                        rankings |-> [k \in 1..Len(race_result.rankings) |->
                                        [user_id |-> race_result.rankings[k].user_id,
                                         speed |-> race_result.rankings[k].speed,
                                         rank |-> race_result.rankings[k].rank]]])]

\* publish_race_to_blockchain: the outcome and the returned value
server_publish_race_to_blockchain(race_result) ==
    IF Len(race_result.rankings) = 0
    THEN [outcome |-> "raise", val |-> None]
    ELSE [outcome |-> "return",
          val |-> Some([race_id |-> race_result.race_id,
                        winner_id |-> race_result.rankings[1].user_id,
                        winner_speed |-> race_result.rankings[1].speed,
                        participants |-> race_result.participants,
                        rankings |-> [k \in 1..Len(race_result.rankings) |->
                                        [user_id |-> race_result.rankings[k].user_id,
                                         speed |-> race_result.rankings[k].speed,
                                         rank |-> race_result.rankings[k].rank]]])]

(* What a caller can submit: the records the Authority issued, and records made
   from them by changing the attribute bytes or the signature *)

IssuedRecords ==
    UNION { { <<car_database[u].cars[k], car_database[u].signatures[k]>> :
                k \in 1..Len(car_database[u].cars) } : u \in DOMAIN car_database }

TamperCar(encrypted_car) ==
    [encrypted_car EXCEPT ![1] = [@ EXCEPT !.pt = Centre(@ + 1)]]

Submissions ==
    IssuedRecords
    \cup { <<TamperCar(r[1]), r[2]>> : r \in IssuedRecords }
    \cup { <<r[1], Sign(ForeignKey, r[1])>> : r \in IssuedRecords }
    \cup { <<r[1], q[2]>> : r \in IssuedRecords, q \in IssuedRecords }

\* entries accepted so far, pending or ranked
EntriesAccepted ==
    LET RECURSIVE Ranked(_)
        Ranked(k) == IF k = 0 THEN 0 ELSE Len(race_results[k].rankings) + Ranked(k - 1)
    IN  Len(current_race_entries) + Ranked(Len(race_results))

(* Actions of the Server *)

AcceptRaceEntry(user_id, encrypted_car, signature) ==
    \E r \in { server_accept_race_entry(user_id, encrypted_car, signature) } :
        /\ r.val => EntriesAccepted < MaxEntries
        /\ current_race_entries' = r.current_race_entries
        /\ ret' = [op |-> "accept_race_entry",
                   args |-> <<Verify(AuthorityKey, encrypted_car, signature)>>,
                   outcome |-> "return", val |-> Some(r.val)]
        /\ UNCHANGED <<race_results, race_counter, run_race_frame,
                       authorityVars, playerVars>>

RunRace(program_interface) ==
    \E r \in { run_race_with(program_interface) } :
        /\ current_race_entries' = r.current_race_entries
        /\ race_results' = r.race_results
        /\ race_counter' = r.race_counter
        /\ ret' = [op |-> "run_race", args |-> <<>>, outcome |-> r.outcome, val |-> r.val]
        /\ UNCHANGED <<run_race_frame, authorityVars, playerVars>>

(* run_race step by step, for callers that call accept_race_entry while a
   run_race is in progress (another thread, or a program_interface whose
   decrypt_speed calls back into the Server).  The steps are the two loops and
   the rest of the method; run_race_frame holds the position and the local
   decrypted_speeds. *)

\* lines 112-119: the check for an empty race and the counter
RunRaceStart ==
    /\ run_race_frame = None
    /\ Len(current_race_entries) > 0 => Len(race_results) < MaxRaces
    /\ IF Len(current_race_entries) = 0
       THEN /\ ret' = [op |-> "run_race", args |-> <<>>, outcome |-> "return",
                       val |-> None]
            /\ UNCHANGED <<race_counter, run_race_frame>>
       ELSE /\ race_counter' = race_counter + 1
            /\ run_race_frame' = Some([pc |-> "calculating", decrypted_speeds |-> <<>>])
            /\ ret' = [op |-> "run_race", args |-> <<>>, outcome |-> "running",
                       val |-> None]
    /\ UNCHANGED <<current_race_entries, race_results, authorityVars, playerVars>>

\* a variant of the evaluation loop that evaluates the first entry's record
\* for every entry
RunRaceCalculateFirstCar ==
    /\ run_race_frame # None
    /\ run_race_frame[1].pc = "calculating"
    /\ current_race_entries' =
          [i \in 1..Len(current_race_entries) |->
              [current_race_entries[i] EXCEPT !.encrypted_speed =
                  Some(server_calculate_encrypted_speed(current_race_entries[1].encrypted_car))]]
    /\ run_race_frame' = Some([run_race_frame[1] EXCEPT !.pc = "decrypting"])
    /\ UNCHANGED <<race_results, race_counter, ret, authorityVars, playerVars>>

\* lines 120-121: the loop that evaluates every pending entry
RunRaceCalculate ==
    /\ run_race_frame # None
    /\ run_race_frame[1].pc = "calculating"
    /\ current_race_entries' =
          [i \in 1..Len(current_race_entries) |->
              [current_race_entries[i] EXCEPT !.encrypted_speed =
                  Some(server_calculate_encrypted_speed(current_race_entries[i].encrypted_car))]]
    /\ run_race_frame' = Some([run_race_frame[1] EXCEPT !.pc = "decrypting"])
    /\ UNCHANGED <<race_results, race_counter, ret, authorityVars, playerVars>>

\* lines 125-129: the loop that has every pending entry's speed decrypted; an
\* entry appended after the first loop has no encrypted speed, and
\* decrypt_speed(None) raises
RunRaceDecrypt ==
    /\ run_race_frame # None
    /\ run_race_frame[1].pc = "decrypting"
    /\ IF \E i \in 1..Len(current_race_entries) :
              current_race_entries[i].encrypted_speed = None
       THEN /\ run_race_frame' = None
            /\ ret' = [op |-> "run_race", args |-> <<>>, outcome |-> "raise",
                       val |-> None]
       ELSE /\ run_race_frame' =
                  Some([pc |-> "ranking",
                        decrypted_speeds |->
                            [i \in 1..Len(current_race_entries) |->
                                decrypt_speed(current_race_entries[i].encrypted_speed[1])]])
            /\ UNCHANGED ret
    /\ UNCHANGED <<current_race_entries, race_results, race_counter,
                   authorityVars, playerVars>>

\* lines 132-162: zip stops at the shorter of the pending entries and the
\* decrypted speeds; the pairs are sorted, the rows numbered, the result
\* appended and the pending entries reset
RunRaceRank ==
    /\ run_race_frame # None
    /\ run_race_frame[1].pc = "ranking"
    /\ LET decrypted_speeds == run_race_frame[1].decrypted_speeds
           n == IF Len(current_race_entries) <= Len(decrypted_speeds)
                THEN Len(current_race_entries) ELSE Len(decrypted_speeds)
           results == SortDesc([i \in 1..n |->
                                  <<current_race_entries[i], decrypted_speeds[i]>>])
           race_result ==
               [race_id |-> race_counter,
                participants |-> Len(results),
                rankings |-> [rank \in 1..Len(results) |->
                                [rank |-> rank,
                                 user_id |-> results[rank][1].user_id,
                                 speed |-> results[rank][2],
                                 encrypted_car |-> results[rank][1].encrypted_car,
                                 signature |-> results[rank][1].signature,
                                 encrypted_speed |-> results[rank][1].encrypted_speed]]]
       IN  /\ race_results' = Append(race_results, race_result)
           /\ ret' = [op |-> "run_race", args |-> <<>>, outcome |-> "return",
                      val |-> Some(race_result)]
    /\ current_race_entries' = <<>>
    /\ run_race_frame' = None
    /\ UNCHANGED <<race_counter, authorityVars, playerVars>>

VerifyRaceResults(race_id) ==
    \E r \in { server_verify_race_results(race_id) } :
        /\ ret' = [op |-> "verify_race_results", args |-> <<race_id>>,
                   outcome |-> r.outcome, val |-> r.val]
        /\ UNCHANGED <<serverVars, authorityVars, playerVars>>

PublishRaceToBlockchain(k) ==
    \E r \in { server_publish_race_to_blockchain(race_results[k]) } :
        /\ ret' = [op |-> "publish_race_to_blockchain", args |-> <<k>>,
                   outcome |-> r.outcome, val |-> r.val]
        /\ UNCHANGED <<serverVars, authorityVars, playerVars>>

\* get_race_history returns the list the Server holds: its caller can assign
\* to a recorded speed
AlterRecordedSpeed(k, rank, speed) ==
    /\ race_results[k].rankings[rank].speed # speed
    /\ race_results' = [race_results EXCEPT ![k].rankings[rank].speed = speed]
    /\ ret' = [op |-> "get_race_history", args |-> <<k>>,
               outcome |-> "return", val |-> None]
    /\ UNCHANGED <<current_race_entries, race_counter, run_race_frame,
                   authorityVars, playerVars>>


---------------------------------------------------------------------------
(* Specifications *)

\* what decrypt_speed can answer: the score when the Authority holds the key
\* the ciphertext was encrypted under; with another secret key the decryption
\* is noise, or the library refuses
GarbageScores == {0, ScoreModulus - 1}

decrypt_outcomes(encrypted_speed) ==
    IF encrypted_speed.key = he_key
    THEN { [outcome |-> "return", val |-> Some(decrypt_speed(encrypted_speed))] }
    ELSE { [outcome |-> "raise", val |-> None] }
         \cup { [outcome |-> "return", val |-> Some(v)] : v \in GarbageScores }

\* ExternalProgram.decrypt_speed: decrypts whatever ciphertext it is handed
DecryptSpeed(encrypted_speed) ==
    /\ \E d \in decrypt_outcomes(encrypted_speed) :
            ret' = [op |-> "decrypt_speed", args |-> <<encrypted_speed>>,
                    outcome |-> d.outcome, val |-> d.val]
    /\ UNCHANGED <<authorityVars, playerVars, serverVars>>

\* ExternalProgram.verify_signature called on its own
ExtVerifySignature(encrypted_car, signature) ==
    /\ ret' = [op |-> "ext_verify_signature",
               args |-> <<Verify(AuthorityKey, encrypted_car, signature)>>,
               outcome |-> "return",
               val |-> Some(ext_verify_signature(encrypted_car, signature))]
    /\ UNCHANGED <<authorityVars, playerVars, serverVars>>

(* Persistence of the Authority.  save_state writes the signing key, the
   homomorphic keys and context, the polynomial and the user counter;
   load_state assigns them from the file.  Restart is __init__ in a new
   process: fresh keys, a fresh polynomial, an empty database. *)

FreshKeys == {AuthorityKey + 1}
FreshPolynomials == { [i \in 1..NumCoeffs |-> NumCoeffs + 1 - i] }

ext_save_state ==
    [signing_key |-> signing_key,
     he_secret_key |-> he_key,
     speed_polynomial |-> speed_polynomial_coeffs,
     user_counter |-> user_counter]

\* a variant of load_state that leaves the homomorphic keys as they are
load_state_keeping_he_keys ==
    [signing_key |-> saved_state[1].signing_key,
     he_key |-> he_key,
     speed_polynomial_coeffs |-> saved_state[1].speed_polynomial,
     user_counter |-> saved_state[1].user_counter]

\* load_state: the fields it assigns, from the file saved_state holds
ext_load_state ==
    [signing_key |-> saved_state[1].signing_key,
     he_key |-> saved_state[1].he_secret_key,
     speed_polynomial_coeffs |-> saved_state[1].speed_polynomial,
     user_counter |-> saved_state[1].user_counter]

SaveState ==
    /\ saved_state' = Some(ext_save_state)
    /\ ret' = [op |-> "save_state", args |-> <<>>, outcome |-> "return", val |-> None]
    /\ UNCHANGED <<signing_key, he_key, speed_polynomial_coeffs, car_database,
                   user_counter, he_rng, playerVars, serverVars>>

\* open() raises when no file was saved
LoadState ==
    /\ IF saved_state = None
       THEN /\ ret' = [op |-> "load_state", args |-> <<>>, outcome |-> "raise",
                       val |-> None]
            /\ UNCHANGED <<signing_key, he_key, speed_polynomial_coeffs, user_counter>>
       ELSE \E r \in { ext_load_state } :
                /\ signing_key' = r.signing_key
                /\ he_key' = r.he_key
                /\ speed_polynomial_coeffs' = r.speed_polynomial_coeffs
                /\ user_counter' = r.user_counter
                /\ ret' = [op |-> "load_state", args |-> <<>>, outcome |-> "return",
                           val |-> None]
    /\ UNCHANGED <<saved_state, car_database, he_rng, playerVars, serverVars>>

Restart ==
    /\ signing_key' \in FreshKeys
    /\ he_key' \in FreshKeys
    /\ speed_polynomial_coeffs' \in FreshPolynomials
    /\ car_database' = <<>>
    /\ user_counter' = 0
    /\ ret' = [op |-> "restart", args |-> <<>>, outcome |-> "return", val |-> None]
    /\ UNCHANGED <<saved_state, he_rng, playerVars, serverVars>>

\* the Authority holds the keys and the polynomial the Player was constructed with
PlayerMaterialCurrent == he_key = AuthorityKey /\ speed_polynomial_coeffs \in Polynomials

\* the records and the cached speeds the Player holds
HeldRecords == { cars[i] : i \in 1..Len(cars) }
HeldSpeeds == { car_speeds[i][1] : i \in { k \in 1..Len(car_speeds) : car_speeds[k] # None } }

\* the attribute ciphertexts of the records the Authority has issued: a record
\* is the pickled list of its ten ciphertexts
AttributeCiphertexts == UNION { { r[1][i] : i \in 1..NumAttrs } : r \in IssuedRecords }

Init ==
    /\ signing_key = AuthorityKey
    /\ he_key = AuthorityKey
    /\ saved_state = None
    /\ speed_polynomial_coeffs \in Polynomials
    /\ car_database = <<>>
    /\ user_counter = 0
    /\ he_rng = 0
    /\ xpf_balance = StartBalance
    /\ cars = <<>>
    /\ car_speeds = <<>>
    /\ current_race_entries = <<>>
    /\ race_results = <<>>
    /\ race_counter = 0
    /\ run_race_frame = None
    /\ ret = [op |-> "init", args |-> <<>>, outcome |-> "return", val |-> None]

\* the Authority alone
NextAuthority ==
    \/ \E attributes \in AttrVectors : RegisterUser(attributes)
    \/ \E user_id \in UserIds, r \in Submissions, m \in Modifications :
            ExtTrainCar(user_id, 0, r[1], r[2], m)
    \/ \E c \in AttributeCiphertexts : DecryptSpeed(c)

SpecAuthority == Init /\ [][NextAuthority]_vars

\* the Authority minting records, and one Entry Holder
NextEntryHolder ==
    \/ he_rng < MaxIssued /\ RegisterUser(PlainAttrs)
    \/ \E r \in Submissions :
            /\ player_verify_signature(r[1], r[2]) => Len(cars) < MaxCars
            /\ AddCar(r[1], r[2])
    \/ \E car_index \in CarIndices : CalculateCarSpeed(car_index)
    \/ \E car_index \in CarIndices, pi \in ProgramInterfaces :
            TrainCar(car_index, pi, Training) /\ he_rng' <= MaxIssued
    \/ \E car_index \in CarIndices : PrepareForRace(car_index)
    \/ \E car_index \in CarIndices : EnterRace(car_index)
    \/ \E amount \in Winnings : ReceiveWinnings(amount)

SpecEntryHolder == Init /\ [][NextEntryHolder]_vars

\* one Entry Holder storing several records, with the Authority it talks to
NextGarage ==
    \/ he_rng < MaxIssued /\ RegisterUser(PlainAttrs)
    \/ \E r \in IssuedRecords : Len(cars) < MaxGarage /\ AddCar(r[1], r[2])
    \/ \E car_index \in CarIndices : CalculateCarSpeed(car_index)
    \/ \E car_index \in CarIndices :
            TrainCar(car_index, "program", Training) /\ he_rng' <= MaxIssued
    \/ \E car_index \in CarIndices : PrepareForRace(car_index)
    \/ \E car_index \in CarIndices : EnterRace(car_index)

SpecGarage == Init /\ [][NextGarage]_vars

\* the Authority minting records, and the Coordinator
NextCoordinator ==
    \/ \E attributes \in AttrVectors : RegisterUser(attributes)
    \/ \E user_id \in UserIds, r \in Submissions : AcceptRaceEntry(user_id, r[1], r[2])
    \/ RunRace("program") /\ Len(race_results') <= MaxRaces
    \/ \E k \in 1..Len(race_results) : PublishRaceToBlockchain(k)

SpecCoordinator == Init /\ [][NextCoordinator]_vars

\* the Coordinator with a caller that alters recorded speeds
NextTamper ==
    \/ RegisterUser(PlainAttrs)
    \/ \E user_id \in UserIds, r \in Submissions : AcceptRaceEntry(user_id, r[1], r[2])
    \/ RunRace("program") /\ Len(race_results') <= MaxRaces
    \/ \E race_id \in RaceIds : VerifyRaceResults(race_id)
    \/ \E k \in 1..Len(race_results) :
         \E rank \in 1..Len(race_results[k].rankings), speed \in AlteredSpeeds :
            AlterRecordedSpeed(k, rank, speed)

SpecTamper == Init /\ [][NextTamper]_vars

\* the Authority saved, restarted and restored, with a Player holding what the
\* Authority issued
NextRestart ==
    \/ he_rng < MaxIssued /\ RegisterUser(PlainAttrs)
    \/ \E r \in IssuedRecords : Len(cars) < MaxCars /\ AddCar(r[1], r[2])
    \/ PlayerMaterialCurrent /\ \E car_index \in CarIndices : CalculateCarSpeed(car_index)
    \/ SaveState
    \/ Restart
    \/ LoadState
    \/ \E r \in HeldRecords : ExtVerifySignature(r[1], r[2])
    \/ \E c \in HeldSpeeds : DecryptSpeed(c)

SpecRestart == Init /\ [][NextRestart]_vars

\* one Authority instance that registers, trains, saves and loads
NextPersistence ==
    \/ \E attributes \in AttrVectors : he_rng < MaxIssued /\ RegisterUser(attributes)
    \/ \E user_id \in UserIds, r \in IssuedRecords :
            ExtTrainCar(user_id, 0, r[1], r[2], Training) /\ he_rng' <= MaxIssued
    \/ \E r \in IssuedRecords : ExtVerifySignature(r[1], r[2])
    \/ SaveState
    \/ LoadState

SpecPersistence == Init /\ [][NextPersistence]_vars

\* the Coordinator over several race cycles, with an Authority that may fail
\* to answer a decryption request
NextHistory ==
    \/ RegisterUser(PlainAttrs)
    \/ \E r \in Submissions : AcceptRaceEntry(player_user_id, r[1], r[2])
    \/ \E program_interface \in ServerInterfaces :
            RunRace(program_interface) /\ race_counter' <= MaxHistory
    \/ \E race_id \in RaceIds : VerifyRaceResults(race_id)
    \/ \E k \in 1..Len(race_results) : PublishRaceToBlockchain(k)

SpecHistory == Init /\ [][NextHistory]_vars

\* the Coordinator with callers that submit entries while a race is being run
NextInterleaved ==
    \/ user_counter < MaxEntries /\ RegisterUser(PlainAttrs)
    \/ \E user_id \in UserIds, r \in Submissions : AcceptRaceEntry(user_id, r[1], r[2])
    \/ RunRaceStart
    \/ RunRaceCalculate
    \/ RunRaceDecrypt
    \/ RunRaceRank

SpecInterleaved == Init /\ [][NextInterleaved]_vars

\* run_race step by step with callers that call the Server one at a time
NextRaceSteps ==
    \/ user_counter < MaxEntries /\ RegisterUser(PlainAttrs)
    \/ /\ run_race_frame = None
       /\ \E user_id \in UserIds, r \in Submissions : AcceptRaceEntry(user_id, r[1], r[2])
    \/ RunRaceStart
    \/ RunRaceCalculate
    \/ RunRaceDecrypt
    \/ RunRaceRank

SpecRaceSteps == Init /\ [][NextRaceSteps]_vars

---------------------------------------------------------------------------
(* Claims about the Entry Holder, checked under SpecEntryHolder *)

\* C1: in every reachable state, after any sequence of train_car, enter_race and
\* receive_winnings calls with amounts >= 0, the Player's balance is >= 0.
C1_BalanceNeverNegative == xpf_balance >= 0

\* a race entered with the last token: the balance has reached zero
C1_Witness ==
    /\ ret.op = "enter_race"
    /\ ret.val = Some(TRUE)
    /\ xpf_balance = 0

\* C2: every train_car or enter_race call that does not succeed, whether it
\* returns False or raises, leaves the balance exactly as it was before the call.
C2_FailedCallKeepsBalance ==
    [][(/\ ret'.op \in {"train_car", "enter_race"}
        /\ ret'.val # Some(TRUE))
       => xpf_balance' = xpf_balance]_vars

---------------------------------------------------------------------------
(* Claims about the Coordinator, checked under SpecCoordinator and SpecTamper *)

\* C3: accept_race_entry with a signature that does not verify under the
\* Authority's public key returns False and leaves the pending entries, the
\* history and the race counter unchanged.
C3_BadSignatureRejected ==
    [][(/\ ret'.op = "accept_race_entry"
        /\ ~ret'.args[1])
       => /\ ret'.val = Some(FALSE)
          /\ current_race_entries' = current_race_entries
          /\ race_results' = race_results
          /\ race_counter' = race_counter]_vars

\* an entry with a bad signature was refused while another entry was pending
C3_Witness ==
    /\ ret.op = "accept_race_entry"
    /\ ~ret.args[1]
    /\ ret.val = Some(FALSE)
    /\ Len(current_race_entries) > 0

\* the one-to-one maps from the rows of a ranking onto the pending positions
Bijections(n) ==
    { f \in [1..n -> 1..n] : \A i, j \in 1..n : i # j => f[i] # f[j] }

\* row is the ranking row made from the pending entry e
RowOf(row, e) ==
    /\ row.user_id = e.user_id
    /\ row.encrypted_car = e.encrypted_car
    /\ row.signature = e.signature

\* C4: the ranking a successful run_race produces is sorted by score in
\* descending order, entries with equal scores keep the order in which they
\* were accepted, and the ranks are 1..n in that order.
C4_RankingSortedStable ==
    [][(/\ ret'.op = "run_race"
        /\ ret'.val # None)
       => LET rankings == ret'.val[1].rankings
              n == Len(current_race_entries)
          IN  /\ Len(rankings) = n
              /\ \A i \in 1..n : rankings[i].rank = i
              /\ \E f \in Bijections(n) :
                    /\ \A i \in 1..n : RowOf(rankings[i], current_race_entries[f[i]])
                    /\ \A i, j \in 1..n :
                          i < j =>
                            \/ rankings[i].speed > rankings[j].speed
                            \/ /\ rankings[i].speed = rankings[j].speed
                               /\ f[i] < f[j]]_vars

\* a race in which two different users tied
C4_Witness ==
    /\ ret.op = "run_race"
    /\ ret.val # None
    /\ Len(ret.val[1].rankings) = 2
    /\ ret.val[1].rankings[1].speed = ret.val[1].rankings[2].speed
    /\ ret.val[1].rankings[1].user_id # ret.val[1].rankings[2].user_id

\* a recorded result one of whose published speeds is not the decryption of the
\* encrypted speed recorded with it
Altered(race_result) ==
    \E k \in 1..Len(race_result.rankings) :
        race_result.rankings[k].speed #
            decrypt_speed(race_result.rankings[k].encrypted_speed[1])

\* verify_race_results was last called, and returned, for a race in the history
VerifiedRecorded ==
    /\ ret.op = "verify_race_results"
    /\ ret.outcome = "return"
    /\ ret.args[1] \in 1..Len(race_results)

\* C5: verify_race_results(race_id) returns False when a score recorded for
\* that race was altered after the race.
C5_VerifyRejectsAlteredScore ==
    (VerifiedRecorded /\ Altered(race_results[ret.args[1]])) => ret.val = Some(FALSE)

C7_EmptyRaceChangesNothing ==
    [][(/\ ret'.op = "run_race"
        /\ Len(current_race_entries) = 0)
       => /\ ret'.val = None
          /\ current_race_entries' = current_race_entries
          /\ race_results' = race_results
          /\ race_counter' = race_counter
          /\ authorityVars' = authorityVars
          /\ playerVars' = playerVars]_vars

\* run_race was refused for want of entries, after a race had been run
C7_Witness ==
    /\ ret.op = "run_race"
    /\ ret.val = None
    /\ race_counter > 0

\* C8: a successful run_race appends exactly one RaceResult to the history; its
\* rankings are a permutation of the pending entries, its participants their
\* number, and no entry is pending afterwards.
C8_RaceRecordsPendingEntries ==
    [][(/\ ret'.op = "run_race"
        /\ ret'.val # None)
       => LET race_result == ret'.val[1]
              n == Len(current_race_entries)
          IN  /\ race_results' = Append(race_results, race_result)
              /\ race_result.participants = n
              /\ Len(race_result.rankings) = n
              /\ \E f \in Bijections(n) :
                    \A i \in 1..n :
                        RowOf(race_result.rankings[i], current_race_entries[f[i]])
              /\ current_race_entries' = <<>>]_vars

\* a race of two different entries was recorded
C8_Witness ==
    /\ ret.op = "run_race"
    /\ ret.val # None
    /\ ret.val[1].participants = 2
    /\ ret.val[1].rankings[1].encrypted_car # ret.val[1].rankings[2].encrypted_car
    /\ race_results = <<ret.val[1]>>
    /\ current_race_entries = <<>>

---------------------------------------------------------------------------
(* Claims about the Authority, checked under SpecAuthority *)

\* C9: ExternalProgram.train_car with a signature that does not verify for the
\* attribute bytes fails, returns no record, and leaves the Authority's state
\* unchanged.
C9_BadSignatureTrainsNothing ==
    [][(/\ ret'.op = "ext_train_car"
        /\ ~ret'.args[1])
       => /\ ret'.val = Some(<<None, None, FALSE>>)
          /\ authorityVars' = authorityVars]_vars

\* a training request with a bad signature was refused by an Authority that
\* holds records
C9_Witness ==
    /\ ret.op = "ext_train_car"
    /\ ~ret.args[1]
    /\ ret.val = Some(<<None, None, FALSE>>)
    /\ user_counter > 0

\* the last call returned a record: register_user, or a successful train_car
ReturnedRecord ==
    \/ ret.op = "register_user"
    \/ ret.op = "ext_train_car" /\ ret.val[1][3]

ReturnedCar == IF ret.op = "register_user" THEN ret.val[1][2] ELSE ret.val[1][1][1]
ReturnedSignature == IF ret.op = "register_user" THEN ret.val[1][3] ELSE ret.val[1][2][1]

\* pairs made from (encrypted_car, signature) by changing the attribute bytes
\* or the signature
Alterations(encrypted_car, signature) ==
    {<<TamperCar(encrypted_car), signature>>,
     <<encrypted_car, Sign(ForeignKey, encrypted_car)>>}
    \cup { <<encrypted_car, q[2]>> : q \in IssuedRecords \ {<<encrypted_car, signature>>} }
    \cup { <<q[1], signature>> : q \in IssuedRecords \ {<<encrypted_car, signature>>} }

\* C10: every (attributes, signature) pair returned by register_user or by a
\* successful train_car verifies under the Authority's key, and no pair made
\* from it by changing the attributes or the signature verifies.
C10_ReturnedRecordsVerify ==
    ReturnedRecord =>
        /\ ext_verify_signature(ReturnedCar, ReturnedSignature)
        /\ \A p \in Alterations(ReturnedCar, ReturnedSignature) :
                ~ext_verify_signature(p[1], p[2])

\* a training returned a new record while the Authority held two others
C10_Witness ==
    /\ ret.op = "ext_train_car"
    /\ ret.val[1][3]
    /\ Cardinality(IssuedRecords) >= 2

---------------------------------------------------------------------------
(* Further claims about the Entry Holder, checked under SpecEntryHolder *)

\* C11: add_car with a signature that verifies stores the record at the end of
\* the owned records, whose count grows by exactly one; with a signature that
\* does not verify it leaves the owned records, their count, the cached scores
\* and the balance unchanged.
C11_AddCarStoresVerifiedOnly ==
    [][ret'.op = "add_car"
       => IF ret'.args[1]
          THEN /\ Len(cars') = Len(cars) + 1
               /\ SubSeq(cars', 1, Len(cars)) = cars
               /\ Verify(AuthorityKey, cars'[Len(cars')][1], cars'[Len(cars')][2])
               /\ car_speeds' = car_speeds
               /\ xpf_balance' = xpf_balance
          ELSE /\ cars' = cars
               /\ car_speeds' = car_speeds
               /\ xpf_balance' = xpf_balance]_vars

\* a record with a bad signature was refused by a Player who holds a record and
\* a cached score
C11_Witness ==
    /\ ret.op = "add_car"
    /\ ~ret.args[1]
    /\ Len(cars) > 0
    /\ car_speeds # <<>>


\* C12: with a balance below 1, train_car and enter_race return False without
\* calling the Authority, and leave the balance, the owned records and the
\* cached scores unchanged.
C12_NoFundsNoEffect ==
    [][(/\ ret'.op \in {"train_car", "enter_race"}
        /\ xpf_balance < 1)
       => /\ ret'.outcome = "return"
          /\ ret'.val = Some(FALSE)
          /\ xpf_balance' = xpf_balance
          /\ cars' = cars
          /\ car_speeds' = car_speeds
          /\ authorityVars' = authorityVars]_vars

\* a training was refused to a Player who holds a record and no token
C12_Witness ==
    /\ ret.op = "train_car"
    /\ ret.val = Some(FALSE)
    /\ xpf_balance = 0
    /\ Len(cars) > 0


---------------------------------------------------------------------------
(* Further claims about the Authority, checked under SpecAuthority *)

\* the last call was a training that succeeded
TrainedRecord == ret.op = "ext_train_car" /\ ret.val[1][3]

\* the plaintext attributes handed to, and returned by, that training
TrainedOld == decrypt_car(ret.args[3][1])
TrainedNew == decrypt_car(ret.val[1][1][1])

\* C13: after a successful train_car of the Authority the record still has 10
\* attributes, and at each position the new plaintext minus the old plaintext
\* lies in [-19, 19].
C13_TrainingDeltaBounded ==
    TrainedRecord =>
        /\ Len(TrainedOld) = NumAttrs
        /\ Len(TrainedNew) = NumAttrs
        /\ \A i \in 1..NumAttrs :
              /\ TrainedNew[i] - TrainedOld[i] >= -MaxDelta
              /\ TrainedNew[i] - TrainedOld[i] <= MaxDelta

\* a training that moved one attribute by +19 and another by -19
C13_Witness ==
    /\ TrainedRecord
    /\ \E i, j \in 1..NumAttrs :
          /\ TrainedNew[i] - TrainedOld[i] = MaxDelta
          /\ TrainedNew[j] - TrainedOld[j] = -MaxDelta


---------------------------------------------------------------------------
(* The blind evaluation on its own: Player and Server are constructed with an
   encrypted polynomial, which may be any list of 66 ciphertexts under the
   Authority's public key.  SpecEvaluation starts from a polynomial drawn from
   EvalPolynomials and applies the three copies of the evaluation loops to the
   records the Authority has issued. *)

UnitPolynomial(k) == [i \in 1..NumCoeffs |-> IF i = k THEN 1 ELSE 0]

EvalPolynomials ==
    Polynomials
    \cup { [i \in 1..NumCoeffs |-> IF i = 1 THEN 1500 ELSE 0] }
    \cup { UnitPolynomial(k) : k \in {11, 12, 31} }

EvalAttrs ==
    { <<2, 3, 5, 7, 11, 13, 17, 19, 23, 29>>,
      [i \in 1..NumAttrs |-> IF i = 1 THEN 999 ELSE 1] }

InitEvaluation ==
    /\ signing_key = AuthorityKey
    /\ he_key = AuthorityKey
    /\ saved_state = None
    /\ speed_polynomial_coeffs \in EvalPolynomials
    /\ car_database = <<>>
    /\ user_counter = 0
    /\ he_rng = 0
    /\ xpf_balance = StartBalance
    /\ cars = <<>>
    /\ car_speeds = <<>>
    /\ current_race_entries = <<>>
    /\ race_results = <<>>
    /\ race_counter = 0
    /\ run_race_frame = None
    /\ ret = [op |-> "init", args |-> <<>>, outcome |-> "return", val |-> None]

\* Server.calculate_encrypted_speed called on its own
ServerCalculateEncryptedSpeed(encrypted_car) ==
    /\ ret' = [op |-> "calculate_encrypted_speed", args |-> <<encrypted_car>>,
               outcome |-> "return",
               val |-> Some(server_calculate_encrypted_speed(encrypted_car))]
    /\ UNCHANGED <<authorityVars, playerVars, serverVars>>

\* ExternalProgram.calculate_encrypted_speed
ExtCalculateEncryptedSpeed(encrypted_car) ==
    /\ ret' = [op |-> "ext_calculate_encrypted_speed", args |-> <<encrypted_car>>,
               outcome |-> "return",
               val |-> Some(ext_calculate_encrypted_speed(encrypted_car))]
    /\ UNCHANGED <<authorityVars, playerVars, serverVars>>

NextEvaluation ==
    \/ \E attributes \in EvalAttrs : RegisterUser(attributes)
    \/ \E r \in IssuedRecords : Len(cars) < MaxCars /\ AddCar(r[1], r[2])
    \/ \E car_index \in CarIndices : CalculateCarSpeed(car_index)
    \/ \E r \in IssuedRecords : ServerCalculateEncryptedSpeed(r[1])
    \/ \E r \in IssuedRecords : ExtCalculateEncryptedSpeed(r[1])

SpecEvaluation == InitEvaluation /\ [][NextEvaluation]_vars

\* The value of the polynomial modulo t, computed term by term from the
\* plaintexts: the coefficient of x_i * x_j (i < j, counted from 1) is at
\* position 22 + (i - 1)(20 - i)/2 + (j - i - 1) of the list.
Residue(x) == x % PlainModulus
Monomial(c, x, y) == Residue(Residue(Residue(c) * Residue(x)) * Residue(y))
CrossIndex(i, j) ==
    2 + 2 * NumAttrs + ((i - 1) * (2 * NumAttrs - i)) \div 2 + (j - i - 1)

PolynomialValue(p, a) ==
    LET linear == [i \in 1..NumAttrs |-> Monomial(p[1 + i], a[i], 1)]
        squares == [i \in 1..NumAttrs |-> Monomial(p[1 + NumAttrs + i], a[i], a[i])]
        cross == [i \in 1..NumAttrs |->
                    PlainSum([j \in 1..NumAttrs |->
                                IF j > i THEN Monomial(p[CrossIndex(i, j)], a[i], a[j])
                                ELSE 0], NumAttrs)]
    IN  Residue(Residue(p[1]) + PlainSum(linear, NumAttrs)
                + PlainSum(squares, NumAttrs) + PlainSum(cross, NumAttrs))

ConstantOnly(p) == \A i \in 2..NumCoeffs : p[i] = 0

\* the last call was an evaluation by the Server or the Authority
Evaluated == ret.op \in {"calculate_encrypted_speed", "ext_calculate_encrypted_speed"}

\* C14: the evaluation multiplies coefficient 0 by nothing, coefficients 1..10
\* by x_0..x_9, 11..20 by the squares and 21..65 by the products x_i*x_j, i < j,
\* in lexicographic order, each once: the decrypted score is the value of that
\* polynomial as decrypt_speed reduces it.  When only the constant term C is
\* nonzero the score is C mod 1001 whatever the attributes.
C14_ScoreIsPolynomialValue ==
    Evaluated =>
        LET a == decrypt_car(ret.args[1])
            score == decrypt_speed(ret.val[1])
        IN  /\ score = Centre(PolynomialValue(speed_polynomial_coeffs, a)) % ScoreModulus
            /\ ConstantOnly(speed_polynomial_coeffs)
                  => score = speed_polynomial_coeffs[1] % ScoreModulus

\* a constant-only polynomial with C > 1000 was evaluated on attributes that differ
C14_Witness ==
    /\ Evaluated
    /\ ConstantOnly(speed_polynomial_coeffs)
    /\ speed_polynomial_coeffs[1] > ScoreModulus
    /\ decrypt_car(ret.args[1])[1] # decrypt_car(ret.args[1])[2]
    /\ decrypt_speed(ret.val[1]) = speed_polynomial_coeffs[1] % ScoreModulus


\* the last call was an evaluation that returned a ciphertext
EvaluatedByAnyRole ==
    \/ Evaluated
    \/ ret.op = "calculate_car_speed" /\ ret.outcome = "return" /\ ret.val # None

\* the attribute ciphertexts that evaluation was about
EvaluatedCar ==
    IF ret.op = "calculate_car_speed"
    THEN cars[PyPos(ret.args[1], Len(cars))][1]
    ELSE ret.args[1]

---------------------------------------------------------------------------
(* Further claims about the Server, checked under SpecCoordinator *)

\* the rows of every recorded race
RecordedRows ==
    UNION { { race_results[k].rankings[r] : r \in 1..Len(race_results[k].rankings) } :
              k \in 1..Len(race_results) }

\* C16: decrypt_speed returns an integer in [0, 1000] whatever the sign or
\* size of the decrypted value, so every speed recorded in a race result, and
\* the winner's speed in the published summary, lies in [0, 1000].
C16_ScoresInRange ==
    /\ \A row \in RecordedRows :
          /\ row.speed = decrypt_speed(row.encrypted_speed[1])
          /\ row.speed >= 0
          /\ row.speed <= ScoreModulus - 1
    /\ (ret.op = "publish_race_to_blockchain" /\ ret.val # None)
          => /\ ret.val[1].winner_speed >= 0
             /\ ret.val[1].winner_speed <= ScoreModulus - 1

\* a race recorded a row whose decrypted value is negative and a row whose
\* decrypted value exceeds 1000
C16_Witness ==
    \E k \in 1..Len(race_results) :
        \E r1, r2 \in 1..Len(race_results[k].rankings) :
            /\ decryptInt(race_results[k].rankings[r1].encrypted_speed[1]) < 0
            /\ decryptInt(race_results[k].rankings[r2].encrypted_speed[1]) > ScoreModulus - 1


\* C17: no value the Authority returns to a Player or to the Server is the
\* plaintext of an attribute; in particular decrypt_speed, handed a ciphertext
\* they hold, does not return the plaintext of an attribute ciphertext.
C17_NoAttributePlaintextReturned ==
    (ret.op = "decrypt_speed" /\ ret.args[1] \in AttributeCiphertexts)
        => ret.val # Some(decryptInt(ret.args[1]))


---------------------------------------------------------------------------
(* accept_race_entry called while run_race is in progress, checked under
   SpecInterleaved *)

\* C18: run_race excludes accept_race_entry for its cycle: while a run_race is
\* between its evaluation and its reset of the pending entries no entry is
\* added, and every entry the reset removes is a row of the result, so no
\* entry that was accepted is discarded without being ranked.
C18_NoAcceptedEntryDiscarded ==
    [][/\ (run_race_frame # None /\ run_race_frame' # None)
            => Len(current_race_entries') = Len(current_race_entries)
       /\ (ret'.op = "run_race" /\ ret'.outcome = "return" /\ ret'.val # None)
            => /\ Len(ret'.val[1].rankings) = Len(current_race_entries)
               /\ \A i \in 1..Len(current_race_entries) :
                     \E r \in 1..Len(ret'.val[1].rankings) :
                        RowOf(ret'.val[1].rankings[r], current_race_entries[i])]_vars


---------------------------------------------------------------------------
(* The Player's cache of encrypted speeds, checked under SpecGarage *)

\* C19: a cached speed is never stale: whenever car_speeds holds a speed at
\* an index, the Player stores a record at that index and the speed is the
\* evaluation of that record.
C19_CachedSpeedOfStoredRecord ==
    \A i \in 1..Len(car_speeds) :
        car_speeds[i] # None
            => /\ i <= Len(cars)
               /\ car_speeds[i] = Some(player_evaluate(cars[i][1]))


---------------------------------------------------------------------------
(* The published summary of a race, checked under SpecCoordinator *)

\* C20: publish_race_to_blockchain of a recorded race returns the race's id, a
\* participant count equal to the length of the ranking, the owner and speed
\* of the rank-1 row as winner (the highest speed of the race) and the rows as
\* (user_id, speed, rank) in the same order with no ciphertext and no
\* signature; it leaves the recorded race and the Server's state as they were.
C20_PublishedSummary ==
    [][(ret'.op = "publish_race_to_blockchain" /\ ret'.outcome = "return")
       => LET race_result == race_results[ret'.args[1]]
              data == ret'.val[1]
          IN  /\ data.race_id = race_result.race_id
              /\ data.participants = Len(race_result.rankings)
              /\ Len(data.rankings) = Len(race_result.rankings)
              /\ data.winner_id = race_result.rankings[1].user_id
              /\ data.winner_speed = race_result.rankings[1].speed
              /\ \A k \in 1..Len(race_result.rankings) :
                    /\ data.winner_speed >= race_result.rankings[k].speed
                    /\ data.rankings[k] = [user_id |-> race_result.rankings[k].user_id,
                                           speed |-> race_result.rankings[k].speed,
                                           rank |-> k]
              /\ serverVars' = serverVars]_vars

\* the summary of a race of two entries with different speeds was published
C20_Witness ==
    /\ ret.op = "publish_race_to_blockchain"
    /\ ret.outcome = "return"
    /\ Len(ret.val[1].rankings) = 2
    /\ ret.val[1].rankings[1].speed > ret.val[1].rankings[2].speed
    /\ ret.val[1].winner_id = ret.val[1].rankings[1].user_id


---------------------------------------------------------------------------
(* The race history over several cycles, checked under SpecHistory *)

\* C21: the history is append-only: accept_race_entry, run_race,
\* verify_race_results and publish_race_to_blockchain leave every recorded
\* result as it is and in its place, so the history of an earlier state is a
\* prefix of the history of every later state.
C21_HistoryAppendOnly ==
    [][/\ Len(race_results') >= Len(race_results)
       /\ SubSeq(race_results', 1, Len(race_results)) = race_results]_vars

\* a second race was recorded behind the first
C21_Witness ==
    /\ ret.op = "run_race"
    /\ ret.val # None
    /\ Len(race_results) = 2
    /\ race_results[2] = ret.val[1]
    /\ race_results[1] # race_results[2]


---------------------------------------------------------------------------
(* Versions of records, checked under SpecAuthority *)

\* C22: every record carries a version: the record register_user returns has
\* version 0, and the record a successful train_car returns has the version
\* of the record handed in plus one.  A returned record is the tuple the
\* method returns; the version would be its component after the signature.
C22_RecordsCarryVersion ==
    /\ ret.op = "register_user"
          => /\ Len(ret.val[1]) > 3
             /\ ret.val[1][4] = 0
    /\ TrainedRecord
          => /\ Len(ret.val[1]) > 3
             /\ ret.val[1][4] > 0


---------------------------------------------------------------------------
(* Persistence of the Authority, checked under SpecRestart *)

\* C23: after load_state of a saved file, every record that verified under
\* the saved signing key verifies, every score ciphertext encrypted under the
\* saved key pair decrypts to its score and to nothing else, and the user
\* counter is the saved one.
C23_LoadStateRestores ==
    (ret.op = "load_state" /\ ret.outcome = "return")
        => /\ user_counter = saved_state[1].user_counter
           /\ \A r \in HeldRecords :
                 Verify(saved_state[1].signing_key, r[1], r[2])
                    => ext_verify_signature(r[1], r[2])
           /\ \A c \in HeldSpeeds :
                 c.key = saved_state[1].he_secret_key
                    => decrypt_outcomes(c) =
                          { [outcome |-> "return", val |-> Some(decrypt_speed(c))] }

\* a restarted Authority was restored while a Player holds a record and a score
\* from before the restart
C23_Witness ==
    /\ ret.op = "load_state"
    /\ ret.outcome = "return"
    /\ car_database = <<>>
    /\ user_counter > 0
    /\ \E r \in HeldRecords : ext_verify_signature(r[1], r[2])
    /\ \E c \in HeldSpeeds : c.key = he_key


---------------------------------------------------------------------------
(* The records a Player stores, checked under SpecEntryHolder *)

\* C24: every (attributes, signature) pair the Player stores verifies under
\* the Authority's verification key, also the pairs train_car installed from
\* the Authority's reply.
C24_StoredRecordsVerify ==
    \A i \in 1..Len(cars) : Verify(AuthorityKey, cars[i][1], cars[i][2])

\* train_car has replaced the stored record by a trained one
C24_Witness ==
    /\ ret.op = "train_car"
    /\ ret.val = Some(TRUE)
    /\ Len(cars) > 0
    /\ \E u \in DOMAIN car_database :
            /\ Len(car_database[u].cars) > 1
            /\ cars[1][1] = car_database[u].cars[Len(car_database[u].cars)]


---------------------------------------------------------------------------
(* The entries the Server holds, checked under SpecHistory *)

\* C25: every pending entry and every row recorded in a race of the history
\* carries a signature that verifies over its attribute bytes under the
\* Authority's verification key.
C25_HeldEntriesVerify ==
    /\ \A i \in 1..Len(current_race_entries) :
            Verify(AuthorityKey, current_race_entries[i].encrypted_car,
                   current_race_entries[i].signature)
    /\ \A k \in 1..Len(race_results) :
            \A rank \in 1..Len(race_results[k].rankings) :
                Verify(AuthorityKey, race_results[k].rankings[rank].encrypted_car,
                       race_results[k].rankings[rank].signature)

\* two entries with different records were accepted and then recorded by run_race
C25_Witness ==
    /\ ret.op = "run_race"
    /\ \E k \in 1..Len(race_results) :
            /\ Len(race_results[k].rankings) = 2
            /\ race_results[k].rankings[1].encrypted_car
                    # race_results[k].rankings[2].encrypted_car


---------------------------------------------------------------------------
(* The scores run_race uses, checked under SpecRaceSteps *)

\* the Coordinator's evaluation of a record's attribute bytes
OwnEvaluation(encrypted_car) == EvaluatePolynomial(encrypted_polynomial, encrypted_car)

RunRaceAt(pc) == run_race_frame # None /\ run_race_frame[1].pc = pc

\* C26: run_race uses no client-supplied score.  An entry carries no encrypted
\* score from its acceptance until the evaluation loop of run_race; when the
\* first decryption is requested every pending entry carries the Coordinator's
\* evaluation of its own attributes; every decrypted value is the decryption
\* of that evaluation; and every recorded row holds the evaluation of the
\* row's attributes and its decryption.
C26_ScoresComputedByCoordinator ==
    /\ (run_race_frame = None \/ RunRaceAt("calculating"))
          => \A i \in 1..Len(current_race_entries) :
                  current_race_entries[i].encrypted_speed = None
    /\ (RunRaceAt("decrypting") \/ RunRaceAt("ranking"))
          => \A i \in 1..Len(current_race_entries) :
                  current_race_entries[i].encrypted_speed
                      = Some(OwnEvaluation(current_race_entries[i].encrypted_car))
    /\ RunRaceAt("ranking")
          => /\ Len(run_race_frame[1].decrypted_speeds) = Len(current_race_entries)
             /\ \A i \in 1..Len(current_race_entries) :
                  run_race_frame[1].decrypted_speeds[i]
                      = decrypt_speed(OwnEvaluation(current_race_entries[i].encrypted_car))
    /\ \A k \in 1..Len(race_results) :
          \A rank \in 1..Len(race_results[k].rankings) :
              LET row == race_results[k].rankings[rank]
              IN  /\ row.encrypted_speed = Some(OwnEvaluation(row.encrypted_car))
                  /\ row.speed = decrypt_speed(OwnEvaluation(row.encrypted_car))

\* run_race has recorded a race of two entries with different records
C26_Witness ==
    /\ ret.op = "run_race"
    /\ ret.outcome = "return"
    /\ run_race_frame = None
    /\ Len(race_results) > 0
    /\ Len(race_results[1].rankings) = 2
    /\ race_results[1].rankings[1].encrypted_car # race_results[1].rankings[2].encrypted_car


---------------------------------------------------------------------------
(* A run_race that fails, checked under SpecHistory *)

\* what was submitted for an entry or recorded in a row
Submitted(e) == <<e.user_id, e.encrypted_car, e.signature>>

SubmittedSeq(entries) == [i \in 1..Len(entries) |-> Submitted(entries[i])]

\* the rows are the entries, each as often as it is pending
SameEntries(rows, entries) ==
    /\ Len(rows) = Len(entries)
    /\ \A i \in 1..Len(entries) :
          Cardinality({ k \in 1..Len(rows) : Submitted(rows[k]) = Submitted(entries[i]) })
            = Cardinality({ k \in 1..Len(entries) :
                                Submitted(entries[k]) = Submitted(entries[i]) })

\* C27: a run_race that raises appends no race to the history and leaves the
\* pending entries as they were, in the same order; the run_race called next
\* ranks exactly these entries.
C27_FailedRaceKeepsEntries ==
    [][/\ (ret'.op = "run_race" /\ ret'.outcome = "raise")
            => /\ race_results' = race_results
               /\ SubmittedSeq(current_race_entries') = SubmittedSeq(current_race_entries)
       /\ (/\ ret.op = "run_race" /\ ret.outcome = "raise"
           /\ ret'.op = "run_race" /\ ret'.outcome = "return")
            => /\ ret'.val # None
               /\ SameEntries(ret'.val[1].rankings, current_race_entries)
               /\ race_results' = Append(race_results, ret'.val[1])]_vars

\* a run_race failed with two entries pending and the next run_race ranked them
C27_Witness ==
    /\ ret.op = "run_race"
    /\ ret.outcome = "return"
    /\ race_counter = 2
    /\ Len(race_results) = 1
    /\ Len(race_results[1].rankings) = 2
    /\ current_race_entries = <<>>


---------------------------------------------------------------------------
(* Training seen from the Player, checked under SpecGarage *)

\* C28: a train_car call that returns has either taken one token, replaced
\* one stored record by a new record the Authority signed and stored that
\* record's evaluation in its cache slot, leaving the other records and slots
\* alone, or has left balance, records and cached scores unchanged; and the
\* Authority's database grows only in the first case, by a signed record.
C28_TrainingAllOrNothing ==
    [][(ret'.op = "train_car" /\ ret'.outcome = "return")
        => /\ \/ /\ xpf_balance' = xpf_balance
                 /\ cars' = cars
                 /\ car_speeds' = car_speeds
              \/ \E pos \in 1..Len(cars) :
                    /\ xpf_balance' = xpf_balance - 1
                    /\ Len(cars') = Len(cars)
                    /\ \A q \in 1..Len(cars) : q # pos => cars'[q] = cars[q]
                    /\ cars'[pos] # cars[pos]
                    /\ Verify(AuthorityKey, cars'[pos][1], cars'[pos][2])
                    /\ Len(car_speeds') >= pos
                    /\ car_speeds'[pos] = Some(player_evaluate(cars'[pos][1]))
                    /\ \A q \in 1..Len(car_speeds) :
                            q # pos => car_speeds'[q] = car_speeds[q]
           /\ car_database' # car_database
                => /\ ret'.val = Some(TRUE)
                   /\ \E r \in IssuedRecords' : Verify(AuthorityKey, r[1], r[2])
                                                   /\ r \notin IssuedRecords]_vars


---------------------------------------------------------------------------
(* Race ids and the history, checked under SpecHistory and SpecTamper *)

\* C29: the race at position k of the history carries race_id k, also after
\* run_race calls that failed, so the ids increase strictly along the history.
C29_RaceIdIsPosition ==
    /\ \A k \in 1..Len(race_results) : race_results[k].race_id = k
    /\ \A j, k \in 1..Len(race_results) :
            j < k => race_results[j].race_id < race_results[k].race_id

\* C30: verify_race_results returns False, without raising, for a race_id
\* above the history length, for 0 and for a negative race_id, whatever the
\* history holds.
C30_UnknownRaceIdRefused ==
    (/\ ret.op = "verify_race_results"
     /\ (ret.args[1] > Len(race_results) \/ ret.args[1] <= 0))
        => (ret.outcome = "return" /\ ret.val = Some(FALSE))


---------------------------------------------------------------------------
(* Conservation of entries, checked under SpecHistory *)

\* the rows of every race of a history, one after the other
RECURSIVE RankedRows(_)
RankedRows(results) ==
    IF results = <<>> THEN <<>>
    ELSE RankedRows(SubSeq(results, 1, Len(results) - 1))
            \o SubmittedSeq(results[Len(results)].rankings)

\* what the Server holds: the pending entries, then the ranked rows
HeldEntries(entries, results) == SubmittedSeq(entries) \o RankedRows(results)

\* how often x is held
HeldCount(held, x) == Cardinality({ i \in 1..Len(held) : held[i] = x })

HeldRange(held) == { held[i] : i \in 1..Len(held) }

\* C31: entries are conserved: an accept_race_entry call that returns True
\* adds exactly one entry to what the Server holds (pending entries plus the
\* rows of the history), and no other step adds, drops or duplicates one, so
\* every accepted entry is pending or ranked in exactly one race.
C31_EntriesConserved ==
    [][LET before == HeldEntries(current_race_entries, race_results)
           after == HeldEntries(current_race_entries', race_results')
       IN  IF /\ ret'.op = "accept_race_entry"
              /\ ret'.val = Some(TRUE)
              /\ run_race_frame' = run_race_frame
           THEN /\ Len(after) = Len(before) + 1
                /\ \A x \in HeldRange(before) :
                        HeldCount(after, x) >= HeldCount(before, x)
           ELSE \A x \in HeldRange(before) \cup HeldRange(after) :
                        HeldCount(after, x) = HeldCount(before, x)]_vars


\* one accepted entry has been ranked and another one accepted after the race
C31_Witness ==
    /\ ret.op = "accept_race_entry"
    /\ ret.val = Some(TRUE)
    /\ Len(current_race_entries) = 1
    /\ Len(race_results) = 1
    /\ Len(race_results[1].rankings) = 1


---------------------------------------------------------------------------
(* The user ids the Authority issues, checked under SpecPersistence *)

\* C32: every register_user call returns a user_id that is larger than every
\* user_id issued before and that has no entry in the car database yet, so no
\* two calls return the same id and no registration overwrites an earlier
\* user's entry, whatever train_car, save_state and load_state calls lie
\* between them.
C32_UserIdsUnique ==
    [][(ret'.op = "register_user" /\ he_rng' # he_rng)
        => /\ ret'.val[1][1] \notin DOMAIN car_database
           /\ \A u \in DOMAIN car_database : u < ret'.val[1][1]
           /\ \A u \in DOMAIN car_database : car_database'[u] = car_database[u]]_vars


---------------------------------------------------------------------------
(* The range of the attributes, checked under SpecAuthority *)

\* every attribute lies in [MinAttr - 19n, MaxAttr + 19n]
AttrsWithin(attributes, n) ==
    \A i \in 1..NumAttrs :
        /\ attributes[i] >= MinAttr - MaxDelta * n
        /\ attributes[i] <= MaxAttr + MaxDelta * n

=============================================================================
